---- MODULE Spec2Model ----
(***************************************************************************)
(* ISD training core of train_isd.py / utils.py: the memory queue, the     *)
(* shuffler, the momentum-updated key encoder, the learning-rate schedule  *)
(* and the epoch loop of main() with its checkpoints and resumption.       *)
(*                                                                         *)
(* Tensors are modelled by what the claims read of them:                   *)
(*  - a parameter tensor is one exact rational number (float rounding is   *)
(*    not modelled);                                                       *)
(*  - an image batch is the sequence of its sample ids;                    *)
(*  - an embedding row is a marker [enc, img, w]: which encoder made it,   *)
(*    of which sample, with which weights (batch-norm statistics, which    *)
(*    make a row depend on its batch, are not modelled);                   *)
(*  - a similarity matrix is the pair (row embeddings, memory it was       *)
(*    multiplied with).                                                    *)
(* Tensor indices are 1-based here and 0-based in the source; queue_ptr    *)
(* keeps the source's 0-based value.                                       *)
(***************************************************************************)
EXTENDS Integers, Sequences, FiniteSets, TLC

(* ------------------------------ bounds -------------------------------- *)

\* --queue_size ranges over MinQueue..MaxQueue
MinQueue == 4

MaxQueue == 6

\* batch sizes range over 2..MaxBatch (--batch_size)
MaxBatch == 3

\* number of samples of the training set (CIFAR10 train split, scaled down)
DatasetSize == 4

\* --epochs of the modelled runs
Epochs == 3

\* number of times the script is started, one after the other
MaxRuns == 2

(* ------------------------- exact rationals ---------------------------- *)

Abs(x) == IF x < 0 THEN -x ELSE x

RECURSIVE GCD(_, _)
GCD(a, b) == IF b = 0 THEN a ELSE GCD(b, a % b)

\* the rational n/d in lowest terms, d > 0
Rat(n, d) ==
    LET g == GCD(Abs(n), Abs(d))
        s == IF d < 0 THEN -1 ELSE 1
    IN  [n |-> s * (n \div g), d |-> s * (d \div g)]

RAdd(a, b) ==
    LET g == GCD(a.d, b.d)
    IN  Rat(a.n * (b.d \div g) + b.n * (a.d \div g), (a.d \div g) * b.d)

RNeg(a) == [n |-> -a.n, d |-> a.d]

RSub(a, b) == RAdd(a, RNeg(b))

RMul(a, b) ==
    LET g1 == GCD(Abs(a.n), b.d)
        g2 == GCD(Abs(b.n), a.d)
    IN  IF a.n = 0 \/ b.n = 0
        THEN [n |-> 0, d |-> 1]
        ELSE [n |-> (a.n \div g1) * (b.n \div g2), d |-> (a.d \div g2) * (b.d \div g1)]

RECURSIVE RPow(_, _)
RPow(a, k) == IF k = 0 THEN [n |-> 1, d |-> 1] ELSE RMul(a, RPow(a, k - 1))

ROne == [n |-> 1, d |-> 1]

RZero == [n |-> 0, d |-> 1]

(* --------------------------- configuration ---------------------------- *)

\* values of --queue_size
QueueSizes == MinQueue..MaxQueue

\* self.m, the key encoder's momentum (0.999 in the source; 3/4 here)
m == [n |-> 3, d |-> 4]

\* --sgd_momentum (0.9 in the source; 1/2 here)
SgdMomentum == [n |-> 1, d |-> 2]

\* --lr_decay_rate, 0.2
LrDecayRate == [n |-> 1, d |-> 5]

\* --lr_decay_epochs ('90,120' in the source; scaled to the modelled epochs)
LrDecayEpochs == <<2, 3>>

\* values of --learning_rate
LearningRates == {[n |-> 1, d |-> 1], [n |-> 2, d |-> 1]}

\* values of --batch_size
BatchSizes == 2..MaxBatch

\* values of --save_freq (2 is the source's default)
SaveFreqs == {1, 2}

\* gradients loss.backward() can leave on a trainable parameter (weight
\* decay included); the data determine them, one value stands for them
Grads == {[n |-> 1, d |-> 1]}

\* the parameter tensors of the model: query encoder, projection head,
\* key encoder
ParamNames == {"encoder_q", "predict_q", "encoder_k"}

NoCkpt == [epoch |-> 0]

\* parse_option(): the options of one start of the script; resume is the
\* epoch of the checkpoint file --resume_path names, 0 for none
ArgsSet ==
    [batch_size : BatchSizes, queue_size : QueueSizes,
     learning_rate : LearningRates, save_freq : SaveFreqs,
     epochs : {Epochs}, resume : 0..Epochs]

(* ------------------------------ ISD ----------------------------------- *)

\* requires_grad left True on the key encoder's parameters
RequiresGradAll(name) == TRUE

\* param_k.requires_grad = False for the key encoder's parameters; every
\* other parameter keeps the default True
RequiresGrad(name) == name # "encoder_k"

\* ISD.__init__: encoder_k is a copy of encoder_q
InitParams ==
    [name \in ParamNames |->
        IF name = "predict_q" THEN [n |-> 2, d |-> 1] ELSE ROne]

\* ISD.__init__: the queue holds K random rows (and the pointer is 0)
InitQueue(K) ==
    [j \in 1..K |-> [enc |-> "init", img |-> <<0, 0, j>>, w |-> RZero]]

\* torch.optim.SGD over the parameters with requires_grad
NewOptimizer(lr) ==
    [lr |-> lr,
     params |-> {name \in ParamNames : RequiresGrad(name)},
     buf |-> [name \in ParamNames |-> RZero]]

\* _momentum_update_key_encoder, for one parameter pair
MomentumBlend(param_k, param_q) ==
    RAdd(RMul(param_k, m), RMul(param_q, RSub(ROne, m)))

\* encoder_q + predict_q + normalize: one row per image
EncodeQ(im, p) ==
    [i \in DOMAIN im |->
        [enc |-> "q", img |-> im[i], w |-> RAdd(p["encoder_q"], p["predict_q"])]]

\* encoder_k + normalize: one row per image, in the order given
EncodeK(im, p) ==
    [i \in DOMAIN im |-> [enc |-> "k", img |-> im[i], w |-> p["encoder_k"]]]

\* tensor[ids]: row i of the result is row ids[i] of the tensor
Index(t, ids) == [i \in DOMAIN ids |-> t[ids[i]]]

\* a gather in place of the scatter: dest[i] = src[index[i]]
IndexCopyGather(dest, index, src) ==
    [j \in DOMAIN dest |-> IF j \in DOMAIN index THEN src[index[j]] ELSE dest[j]]

\* dest.index_copy_(0, index, src): dest[index[i]] = src[i]
IndexCopy(dest, index, src) ==
    [j \in DOMAIN dest |->
        IF \E i \in DOMAIN index : index[i] = j
        THEN src[CHOOSE i \in DOMAIN index : index[i] = j]
        ELSE dest[j]]

\* torch.randperm(bsz): any permutation
Perms(n) ==
    {f \in [1..n -> 1..n] : \A i, j \in 1..n : f[i] = f[j] => i = j}

\* get_shuffle_ids, given the permutation randperm drew
GetShuffleIds(forward_inds) ==
    LET bsz == Len(forward_inds)
        zeros == [i \in 1..bsz |-> 0]
        value == [i \in 1..bsz |-> i]
    IN  <<forward_inds, IndexCopy(zeros, forward_inds, value)>>

\* self.queue[ptr:ptr + batch_size] = keys
SliceAssign(qu, ptr, keys) ==
    [j \in DOMAIN qu |->
        IF ptr < j /\ j <= ptr + Len(keys) THEN keys[j - ptr] ELSE qu[j]]

\* the pointer moved without the wraparound
MovePointerNoWrap(ptr, batch_size, K) == ptr + batch_size

\* ptr = (ptr + batch_size) % self.K
MovePointer(ptr, batch_size, K) == (ptr + batch_size) % K

\* the slice queue[ptr:ptr + batch_size] has batch_size rows; a shorter one
\* makes the assignment raise RuntimeError (shape mismatch)
SliceFits(ptr, batch_size, K) == ptr + batch_size <= K

\* the assertion left out
AssertNothing(batch_size, K) == TRUE

\* assert self.K % batch_size == 0
AssertDivides(batch_size, K) == K % batch_size = 0

(* ------------------------ adjust_learning_rate ------------------------ *)

\* np.sum(epoch > np.asarray(opt.lr_decay_epochs))
DecaySteps(ep) ==
    Cardinality({i \in DOMAIN LrDecayEpochs : ep > LrDecayEpochs[i]})

\* adjust_learning_rate, step mode: the learning rate of the param groups
\* after the call (the cosine branch is taken only under --cos, which the
\* modelled runs do not pass)
AdjustLearningRate(ep, opt, lr) ==
    LET steps == DecaySteps(ep)
    IN  IF steps > 0
        THEN RMul(opt.learning_rate, RPow(LrDecayRate, steps))
        ELSE lr

(* ------------------------------ main ---------------------------------- *)

\* len(train_loader) with drop_last=True
StepsPerEpoch(opt) == DatasetSize \div opt.batch_size

\* the keys enqueued before the queue is cloned and scored
StepOrderEnqueueFirst ==
    <<"encode_query", "momentum_update", "shuffle", "encode_key", "unshuffle",
      "enqueue", "snapshot", "similarity", "optimizer_step">>

\* the momentum update made after the key view is encoded
StepOrderLateMomentum ==
    <<"encode_query", "shuffle", "encode_key", "momentum_update", "unshuffle",
      "snapshot", "similarity", "enqueue", "optimizer_step">>

\* the order of the operations of one training step: ISD.forward, then
\* criterion / backward / optimizer.step in train_student
StepOrder ==
    <<"encode_query", "momentum_update", "shuffle", "encode_key", "unshuffle",
      "snapshot", "similarity", "enqueue", "optimizer_step">>

FirstOp == StepOrder[1]

NextOp(op) ==
    LET i == CHOOSE i \in DOMAIN StepOrder : StepOrder[i] = op
    IN  IF i = Len(StepOrder) THEN "fetch" ELSE StepOrder[i + 1]

\* if epoch % args.save_freq == 0
SaveDue(ep, opt) == ep % opt.save_freq = 0

\* the state dict torch.save writes
Checkpoint(ep, opt, p, qu, ptr, o) ==
    [epoch |-> ep, opt |-> opt,
     state_dict |-> [params |-> p, queue |-> qu, queue_ptr |-> ptr],
     optimizer |-> [lr |-> o.lr, buf |-> o.buf]]

\* the saved epoch run again
ResumeEpochSame(ckpt) == ckpt.epoch

\* args.start_epoch = ckpt['epoch'] + 1
ResumeEpoch(ckpt) == ckpt.epoch + 1

VARIABLES
    pc,           \* where the running script is
    runs,         \* how many times the script has been started
    args,         \* the options of this run
    epoch,        \* main's loop variable
    idx,          \* train_student's loop variable
    step_no,      \* training steps this run has completed
    params,       \* parameter tensors of isd
    queue,        \* isd.queue
    queue_ptr,    \* isd.queue_ptr
    optimizer,    \* lr, parameter set and momentum buffers of the optimizer
    disk,         \* checkpoint_path: epoch -> the file ckpt_epoch_{epoch}.pth
    im_q, im_k,   \* the two views of the current batch
    q, k,         \* their embeddings
    shuffle_ids, reverse_ids,
    snap,         \* forward's local queue, the clone of self.queue
    sim_q, sim_k, \* the similarity matrices
    ops,          \* operations the current training step has completed
    adjusted,     \* the epoch adjust_learning_rate was last called for, 0 for none
    err           \* the exception that ended the run, "" for none

vars ==
    <<pc, runs, args, epoch, idx, step_no, params, queue, queue_ptr,
      optimizer, disk, im_q, im_k, q, k, shuffle_ids, reverse_ids, snap,
      sim_q, sim_k, ops, adjusted, err>>

model_vars == <<params, queue, queue_ptr>>

locals == <<im_q, im_k, q, k, shuffle_ids, reverse_ids, snap, sim_q, sim_k>>

NoSim == [emb |-> <<>>, mem |-> <<>>]

\* main() up to the resume check: a freshly constructed model and optimizer
Constructed(a) ==
    /\ args' = a
    /\ pc' = "resume_check"
    /\ epoch' = 1
    /\ idx' = 0
    /\ step_no' = 0
    /\ params' = InitParams
    /\ queue' = InitQueue(a.queue_size)
    /\ queue_ptr' = 0
    /\ optimizer' = NewOptimizer(a.learning_rate)
    /\ im_q' = <<>> /\ im_k' = <<>> /\ q' = <<>> /\ k' = <<>>
    /\ shuffle_ids' = <<>> /\ reverse_ids' = <<>> /\ snap' = <<>>
    /\ sim_q' = NoSim /\ sim_k' = NoSim
    /\ ops' = <<>>
    /\ adjusted' = 0
    /\ err' = ""

Init ==
    /\ args \in {a \in ArgsSet : a.resume = 0}
    /\ pc = "resume_check"
    /\ runs = 1
    /\ epoch = 1
    /\ idx = 0
    /\ step_no = 0
    /\ params = InitParams
    /\ queue = InitQueue(args.queue_size)
    /\ queue_ptr = 0
    /\ optimizer = NewOptimizer(args.learning_rate)
    /\ disk = [e \in 1..Epochs |-> NoCkpt]
    /\ im_q = <<>> /\ im_k = <<>> /\ q = <<>> /\ k = <<>>
    /\ shuffle_ids = <<>> /\ reverse_ids = <<>> /\ snap = <<>>
    /\ sim_q = NoSim /\ sim_k = NoSim
    /\ ops = <<>>
    /\ adjusted = 0
    /\ err = ""

\* the script is started again after the previous run ended
Launch ==
    /\ pc \in {"done", "aborted"}
    /\ runs < MaxRuns
    /\ \E a \in ArgsSet :
        /\ a.resume # 0 => disk[a.resume] # NoCkpt
        /\ Constructed(a)
    /\ runs' = runs + 1
    /\ UNCHANGED disk

\* isd.load_state_dict(strict=True) accepts the checkpoint: its queue has the
\* shape of this run's queue
ShapesMatch(ckpt, qu) == Len(ckpt.state_dict.queue) = Len(qu)

\* if args.resume_path: load model and optimizer state, set start_epoch
LoadCheckpoint ==
    /\ pc = "resume_check"
    /\ args.resume # 0
    /\ ShapesMatch(disk[args.resume], queue)
    /\ LET ckpt == disk[args.resume]
       IN  /\ params' = ckpt.state_dict.params
           /\ queue' = ckpt.state_dict.queue
           /\ queue_ptr' = ckpt.state_dict.queue_ptr
           /\ optimizer' = [optimizer EXCEPT !.lr = ckpt.optimizer.lr,
                                             !.buf = ckpt.optimizer.buf]
           /\ epoch' = ResumeEpoch(ckpt)
    /\ pc' = "epoch_loop"
    /\ UNCHANGED <<runs, adjusted, args, idx, step_no, disk, locals, ops, err>>

\* load_state_dict copies every tensor whose shape matches, then raises
\* RuntimeError for the queue, whose shape does not
LoadMismatch ==
    /\ pc = "resume_check"
    /\ args.resume # 0
    /\ ~ShapesMatch(disk[args.resume], queue)
    /\ LET ckpt == disk[args.resume]
       IN  /\ params' = ckpt.state_dict.params
           /\ queue_ptr' = ckpt.state_dict.queue_ptr
    /\ err' = "RuntimeError"
    /\ pc' = "aborted"
    /\ UNCHANGED <<runs, adjusted, args, epoch, idx, step_no, queue, optimizer, disk,
                   locals, ops>>

NoResume ==
    /\ pc = "resume_check"
    /\ args.resume = 0
    /\ pc' = "epoch_loop"
    /\ UNCHANGED <<runs, adjusted, args, epoch, idx, step_no, model_vars, optimizer,
                   disk, locals, ops, err>>

\* for epoch in range(args.start_epoch, args.epochs + 1)
NextEpoch ==
    /\ pc = "epoch_loop"
    /\ epoch <= args.epochs
    /\ pc' = "adjust_lr"
    /\ UNCHANGED <<runs, adjusted, args, epoch, idx, step_no, model_vars, optimizer,
                   disk, locals, ops, err>>

Finish ==
    /\ pc = "epoch_loop"
    /\ epoch > args.epochs
    /\ pc' = "done"
    /\ UNCHANGED <<runs, adjusted, args, epoch, idx, step_no, model_vars, optimizer,
                   disk, locals, ops, err>>

\* adjust_learning_rate(epoch, args, optimizer)
AdjustLR ==
    /\ pc = "adjust_lr"
    /\ optimizer' =
        [optimizer EXCEPT !.lr = AdjustLearningRate(epoch, args, optimizer.lr)]
    /\ adjusted' = epoch
    /\ idx' = 0
    /\ pc' = "fetch"
    /\ UNCHANGED <<runs, args, epoch, step_no, model_vars, disk, locals, ops, err>>

\* for idx, ((im_q, im_k), _) in enumerate(train_loader)
Fetch ==
    /\ pc = "fetch"
    /\ idx < StepsPerEpoch(args)
    /\ im_q' = [i \in 1..args.batch_size |-> <<runs, step_no, i>>]
    /\ im_k' = [i \in 1..args.batch_size |-> <<runs, step_no, i>>]
    /\ ops' = <<>>
    /\ pc' = FirstOp
    /\ UNCHANGED <<runs, adjusted, args, epoch, idx, step_no, model_vars, optimizer,
                   disk, q, k, shuffle_ids, reverse_ids, snap, sim_q, sim_k, err>>

EpochDone ==
    /\ pc = "fetch"
    /\ idx >= StepsPerEpoch(args)
    /\ pc' = "save"
    /\ UNCHANGED <<runs, adjusted, args, epoch, idx, step_no, model_vars, optimizer,
                   disk, locals, ops, err>>

\* feat_q = encoder_q(im_q); q = normalize(predict_q(feat_q))
EncodeQuery ==
    /\ pc = "encode_query"
    /\ q' = EncodeQ(im_q, params)
    /\ ops' = Append(ops, "encode_query")
    /\ pc' = NextOp("encode_query")
    /\ UNCHANGED <<runs, adjusted, args, epoch, idx, step_no, model_vars, optimizer,
                   disk, im_q, im_k, k, shuffle_ids, reverse_ids, snap,
                   sim_q, sim_k, err>>

\* self._momentum_update_key_encoder()
MomentumUpdate ==
    /\ pc = "momentum_update"
    /\ params' = [params EXCEPT
            !["encoder_k"] = MomentumBlend(params["encoder_k"], params["encoder_q"])]
    /\ ops' = Append(ops, "momentum_update")
    /\ pc' = NextOp("momentum_update")
    /\ UNCHANGED <<runs, adjusted, args, epoch, idx, step_no, queue, queue_ptr,
                   optimizer, disk, locals, err>>

\* shuffle_ids, reverse_ids = get_shuffle_ids(bsz); im_k = im_k[shuffle_ids]
ShuffleKeys ==
    /\ pc = "shuffle"
    /\ \E forward_inds \in Perms(Len(im_k)) :
        LET ids == GetShuffleIds(forward_inds)
        IN  /\ shuffle_ids' = ids[1]
            /\ reverse_ids' = ids[2]
            /\ im_k' = Index(im_k, ids[1])
    /\ ops' = Append(ops, "shuffle")
    /\ pc' = NextOp("shuffle")
    /\ UNCHANGED <<runs, adjusted, args, epoch, idx, step_no, model_vars, optimizer,
                   disk, im_q, q, k, snap, sim_q, sim_k, err>>

\* k = normalize(encoder_k(im_k))
EncodeKey ==
    /\ pc = "encode_key"
    /\ k' = EncodeK(im_k, params)
    /\ ops' = Append(ops, "encode_key")
    /\ pc' = NextOp("encode_key")
    /\ UNCHANGED <<runs, adjusted, args, epoch, idx, step_no, model_vars, optimizer,
                   disk, im_q, im_k, q, shuffle_ids, reverse_ids, snap,
                   sim_q, sim_k, err>>

\* k = k[reverse_ids]
UndoShuffle ==
    /\ pc = "unshuffle"
    /\ k' = Index(k, reverse_ids)
    /\ ops' = Append(ops, "unshuffle")
    /\ pc' = NextOp("unshuffle")
    /\ UNCHANGED <<runs, adjusted, args, epoch, idx, step_no, model_vars, optimizer,
                   disk, im_q, im_k, q, shuffle_ids, reverse_ids, snap,
                   sim_q, sim_k, err>>

\* queue = self.queue.clone().detach()
Snapshot ==
    /\ pc = "snapshot"
    /\ snap' = queue
    /\ ops' = Append(ops, "snapshot")
    /\ pc' = NextOp("snapshot")
    /\ UNCHANGED <<runs, adjusted, args, epoch, idx, step_no, model_vars, optimizer,
                   disk, im_q, im_k, q, k, shuffle_ids, reverse_ids,
                   sim_q, sim_k, err>>

\* sim_q = mm(q, queue.t()) / T; sim_k = mm(k, queue.t()) / T
Similarity ==
    /\ pc = "similarity"
    /\ sim_q' = [emb |-> q, mem |-> snap]
    /\ sim_k' = [emb |-> k, mem |-> snap]
    /\ ops' = Append(ops, "similarity")
    /\ pc' = NextOp("similarity")
    /\ UNCHANGED <<runs, adjusted, args, epoch, idx, step_no, model_vars, optimizer,
                   disk, im_q, im_k, q, k, shuffle_ids, reverse_ids, snap, err>>

\* self._dequeue_and_enqueue(k)
DequeueAndEnqueue ==
    /\ pc = "enqueue"
    /\ LET batch_size == Len(k)
           ptr == queue_ptr
           K == args.queue_size
       IN  \/ /\ ~AssertDivides(batch_size, K)
              /\ err' = "AssertionError"
              /\ pc' = "aborted"
              /\ UNCHANGED <<queue, queue_ptr, ops>>
           \/ /\ AssertDivides(batch_size, K)
              /\ ~SliceFits(ptr, batch_size, K)
              /\ err' = "RuntimeError"
              /\ pc' = "aborted"
              /\ UNCHANGED <<queue, queue_ptr, ops>>
           \/ /\ AssertDivides(batch_size, K)
              /\ SliceFits(ptr, batch_size, K)
              /\ queue' = SliceAssign(queue, ptr, k)
              /\ queue_ptr' = MovePointer(ptr, batch_size, K)
              /\ ops' = Append(ops, "enqueue")
              /\ pc' = NextOp("enqueue")
              /\ err' = err
    /\ UNCHANGED <<runs, adjusted, args, epoch, idx, step_no, params, optimizer, disk,
                   locals>>

\* loss = criterion(sim_q, sim_k); zero_grad; backward; optimizer.step()
OptimizerStep ==
    /\ pc = "optimizer_step"
    /\ \E g \in Grads :
        LET buf == [name \in ParamNames |->
                       IF name \in optimizer.params
                       THEN RAdd(RMul(SgdMomentum, optimizer.buf[name]), g)
                       ELSE optimizer.buf[name]]
        IN  /\ optimizer' = [optimizer EXCEPT !.buf = buf]
            /\ params' = [name \in ParamNames |->
                             IF name \in optimizer.params
                             THEN RSub(params[name], RMul(optimizer.lr, buf[name]))
                             ELSE params[name]]
    /\ ops' = Append(ops, "optimizer_step")
    /\ idx' = idx + 1
    /\ step_no' = step_no + 1
    /\ pc' = NextOp("optimizer_step")
    /\ im_q' = <<>> /\ im_k' = <<>> /\ q' = <<>> /\ k' = <<>>
    /\ shuffle_ids' = <<>> /\ reverse_ids' = <<>> /\ snap' = <<>>
    /\ sim_q' = NoSim /\ sim_k' = NoSim
    /\ UNCHANGED <<runs, adjusted, args, epoch, queue, queue_ptr, disk, err>>

\* the end of the epoch: torch.save when the epoch is due
SaveCheckpoint ==
    /\ pc = "save"
    /\ SaveDue(epoch, args)
    /\ disk' = [disk EXCEPT ![epoch] =
                    Checkpoint(epoch, args, params, queue, queue_ptr, optimizer)]
    /\ epoch' = epoch + 1
    /\ pc' = "epoch_loop"
    /\ UNCHANGED <<runs, adjusted, args, idx, step_no, model_vars, optimizer, locals,
                   ops, err>>

SkipCheckpoint ==
    /\ pc = "save"
    /\ ~SaveDue(epoch, args)
    /\ epoch' = epoch + 1
    /\ pc' = "epoch_loop"
    /\ UNCHANGED <<runs, adjusted, args, idx, step_no, model_vars, optimizer, disk,
                   locals, ops, err>>

Next ==
    \/ Launch
    \/ LoadCheckpoint
    \/ LoadMismatch
    \/ NoResume
    \/ NextEpoch
    \/ Finish
    \/ AdjustLR
    \/ Fetch
    \/ EpochDone
    \/ EncodeQuery
    \/ MomentumUpdate
    \/ ShuffleKeys
    \/ EncodeKey
    \/ UndoShuffle
    \/ Snapshot
    \/ Similarity
    \/ DequeueAndEnqueue
    \/ OptimizerStep
    \/ SaveCheckpoint
    \/ SkipCheckpoint

Spec == Init /\ [][Next]_vars

(* ------------------------------ claims -------------------------------- *)

InOps(op) == \E i \in DOMAIN ops : ops[i] = op

\* the positions of a run that has not ended
Running == pc \notin {"done", "aborted"}

\* the positions inside the epoch loop
InLoop ==
    pc \in {"epoch_loop", "adjust_lr", "fetch", "save", "encode_query",
            "momentum_update", "shuffle", "encode_key", "unshuffle",
            "snapshot", "similarity", "enqueue", "optimizer_step"}

\* C1: whenever _dequeue_and_enqueue(keys) is called with K % batch_size = 0,
\* it writes keys[i] to queue[ptr + i] for every row i of the batch, leaves
\* every other queue row as it was and sets the pointer to
\* (ptr + batch_size) mod K.
C1_EnqueueContract ==
    [][(pc = "enqueue" /\ args.queue_size % Len(k) = 0) =>
          /\ \A i \in 1..Len(k) :
                /\ queue_ptr + i \in DOMAIN queue'
                /\ queue'[queue_ptr + i] = k[i]
          /\ \A j \in DOMAIN queue :
                (j <= queue_ptr \/ j > queue_ptr + Len(k)) => queue'[j] = queue[j]
          /\ queue_ptr' = (queue_ptr + Len(k)) % args.queue_size]_vars

\* the key row the run's training step s (counted from 0) enqueues for
\* sample i of its batch
IsKeyOf(row, s, i) == row.enc = "k" /\ row.img = <<runs, s, i>>

\* C2: in a run that starts with a fresh queue (pointer 0) and a batch size
\* dividing K, after every training step the pointer is
\* (steps mod K/batch_size) * batch_size and the queue holds the last
\* K/batch_size batches, each in its block in insertion order; so after
\* every K/batch_size steps the pointer is 0 again and the queue is exactly
\* the batches of that cycle in insertion order, the oldest at the pointer.
C2_Wraparound ==
    LET bs == args.batch_size
        nb == args.queue_size \div bs
        first == IF step_no > nb THEN step_no - nb ELSE 0
    IN  (/\ args.resume = 0
         /\ args.queue_size % bs = 0
         /\ pc # "optimizer_step")
        => /\ queue_ptr = (step_no % nb) * bs
           /\ \A s \in first..(step_no - 1) : \A i \in 1..bs :
                 IsKeyOf(queue[(s % nb) * bs + i], s, i)
           /\ (step_no > 0 /\ step_no % nb = 0) =>
                 /\ queue_ptr = 0
                 /\ \A j \in 1..args.queue_size :
                       IsKeyOf(queue[j], step_no - nb + ((j - 1) \div bs),
                               ((j - 1) % bs) + 1)

\* C2 witness: a fresh run has completed two full cycles of the queue
C2_Witness ==
    /\ args.resume = 0
    /\ args.queue_size % args.batch_size = 0
    /\ pc = "fetch"
    /\ step_no = 2 * (args.queue_size \div args.batch_size)
    /\ queue_ptr = 0

Rows(t) == {t[i] : i \in DOMAIN t}

\* C3: whenever a training step enqueues its keys, sim_q and sim_k have
\* already been computed, from this step's q and k, against the queue as it
\* is before the enqueue, and none of the keys is a row of that memory; and
\* within a training step nothing but the enqueue changes the queue.
C3_ScoreBeforeEnqueue ==
    [][/\ pc = "enqueue" =>
            /\ sim_q = [emb |-> q, mem |-> queue]
            /\ sim_k = [emb |-> k, mem |-> queue]
            /\ Len(k) = args.batch_size
            /\ Rows(k) \cap Rows(sim_k.mem) = {}
       /\ (InLoop /\ pc # "enqueue") => queue' = queue]_vars

\* C3 witness: a step has enqueued its keys, the memory it was scored
\* against is the queue without them
C3_Witness ==
    /\ pc = "optimizer_step"
    /\ step_no >= 1
    /\ Rows(k) \subseteq Rows(queue)
    /\ Rows(k) \cap Rows(sim_k.mem) = {}
    /\ sim_k.mem # queue

IsPrefix(a, b) == Len(a) <= Len(b) /\ \A i \in DOMAIN a : a[i] = b[i]

\* ops without the shuffle and unshuffle around encode_key
RECURSIVE Coarse(_)
Coarse(o) ==
    IF o = <<>> THEN <<>>
    ELSE IF Head(o) \in {"shuffle", "unshuffle"} THEN Coarse(Tail(o))
    ELSE <<Head(o)>> \o Coarse(Tail(o))

\* C4 as claimed: the operations of a training step run in the order
\* momentum_update, encode_query, encode_key, snapshot, similarity, enqueue,
\* optimizer step.
C4_ClaimedOrder ==
    IsPrefix(Coarse(ops),
             <<"momentum_update", "encode_query", "encode_key", "snapshot",
               "similarity", "enqueue", "optimizer_step">>)

\* C4 amended: the operations of a training step run in the order
\* encode_query, momentum_update, shuffle, encode_key, unshuffle, snapshot,
\* similarity, enqueue, optimizer step, each once; the key rows are made
\* with the key weights the momentum update of this step left, and the
\* query rows with the query weights of the start of the step.
C4_StepOrder ==
    /\ IsPrefix(ops, <<"encode_query", "momentum_update", "shuffle",
                       "encode_key", "unshuffle", "snapshot", "similarity",
                       "enqueue", "optimizer_step">>)
    /\ \A i \in DOMAIN k :
          k[i].w = params["encoder_k"] /\ InOps("momentum_update")
    /\ \A i \in DOMAIN q :
          q[i].w = RAdd(params["encoder_q"], params["predict_q"])

\* C4 witness: a training step has run all its operations, after an
\* earlier step's optimizer step moved the query weights
C4_Witness ==
    /\ pc = "fetch"
    /\ step_no >= 2
    /\ Len(ops) = 9
    /\ ops[1] = "encode_query"
    /\ ops[2] = "momentum_update"
    /\ ops[9] = "optimizer_step"

\* what load or construction left in the model when the run started
StartModel ==
    IF args.resume = 0
    THEN [params |-> InitParams, queue |-> InitQueue(args.queue_size), queue_ptr |-> 0]
    ELSE disk[args.resume].state_dict

MilestonesBefore(ep) ==
    Cardinality({i \in 1..Len(LrDecayEpochs) : LrDecayEpochs[i] < ep})

\* C6: whatever learning rate the optimizer holds, adjust_learning_rate
\* leaves lr = base_lr * decay_rate^n in the optimizer, n the number of
\* milestones strictly less than the epoch.
C6_StepSchedule ==
    [][pc = "adjust_lr" =>
          optimizer'.lr =
              RMul(args.learning_rate, RPow(LrDecayRate, MilestonesBefore(epoch)))]_vars

\* C7: the ids get_shuffle_ids returns are a permutation of the batch
\* positions and its inverse, inverse[forward[i]] = i for every i; and once
\* forward() has undone the shuffle, row i of k is the key embedding of the
\* sample whose query view is im_q[i].
C7_ShuffleRoundTrip ==
    /\ reverse_ids # <<>> =>
          /\ Len(shuffle_ids) = args.batch_size
          /\ Len(reverse_ids) = args.batch_size
          /\ {shuffle_ids[i] : i \in 1..args.batch_size} = 1..args.batch_size
          /\ \A i \in 1..args.batch_size : reverse_ids[shuffle_ids[i]] = i
    /\ InOps("unshuffle") /\ k # <<>> =>
          /\ Len(k) = args.batch_size
          /\ \A i \in 1..args.batch_size :
                k[i].enc = "k" /\ k[i].img = im_q[i]

\* C7 witness: the shuffle drew a permutation that is not its own inverse,
\* and has been undone
C7_Witness ==
    /\ pc = "snapshot"
    /\ shuffle_ids # reverse_ids
    /\ im_k # im_q
    /\ \A i \in DOMAIN k : k[i].img = im_q[i]

\* C8: the momentum update sets the key parameter to m*key + (1-m)*query
\* with the query parameter of that moment, which leaves key = query when
\* they were equal; the optimizer step changes no parameter but those of
\* the query encoder and the projection head; and no other operation of
\* the epoch loop changes the key parameter.
C8_KeyParams ==
    [][/\ pc = "momentum_update" =>
            /\ params'["encoder_k"] =
                  RAdd(RMul(m, params["encoder_k"]),
                       RMul(RSub(ROne, m), params["encoder_q"]))
            /\ params["encoder_k"] = params["encoder_q"] =>
                  params'["encoder_k"] = params["encoder_q"]
            /\ params'["encoder_q"] = params["encoder_q"]
       /\ pc = "optimizer_step" =>
            /\ params'["encoder_k"] = params["encoder_k"]
            /\ params'["encoder_q"] =
                  RSub(params["encoder_q"],
                       RMul(optimizer.lr, optimizer'.buf["encoder_q"]))
            /\ params'["predict_q"] =
                  RSub(params["predict_q"],
                       RMul(optimizer.lr, optimizer'.buf["predict_q"]))
            /\ optimizer'.buf["encoder_k"] = RZero
       /\ (InLoop /\ pc # "momentum_update") =>
            params'["encoder_k"] = params["encoder_k"]]_vars

\* C8 witness: a momentum update has blended a key parameter that differed
\* from the query parameter
C8_Witness ==
    /\ step_no >= 2
    /\ ops = <<"encode_query", "momentum_update">>
    /\ params["encoder_k"] # params["encoder_q"]
    /\ params["encoder_k"] # InitParams["encoder_k"]

\* C9: a checkpoint is written exactly at the end of an epoch that is a
\* multiple of save_freq, after all its steps, and holds that epoch, the
\* parameters, queue, pointer and optimizer state of that moment; loading
\* it starts the loop at the saved epoch + 1 with the saved queue, pointer,
\* parameters and optimizer state; epochs follow one another in increasing
\* order up to epochs; and every training step of an epoch runs after
\* adjust_learning_rate was called for that epoch.
C9_CheckpointResume ==
    [][/\ pc = "save" =>
            /\ idx = DatasetSize \div args.batch_size
            /\ IF epoch % args.save_freq = 0
               THEN disk' = [disk EXCEPT ![epoch] =
                        [epoch |-> epoch, opt |-> args,
                         state_dict |-> [params |-> params, queue |-> queue,
                                         queue_ptr |-> queue_ptr],
                         optimizer |-> [lr |-> optimizer.lr, buf |-> optimizer.buf]]]
               ELSE disk' = disk
            /\ epoch' = epoch + 1
       /\ pc # "save" => disk' = disk
       /\ (pc = "resume_check" /\ pc' = "epoch_loop" /\ args.resume # 0) =>
            /\ disk[args.resume].epoch = args.resume
            /\ epoch' = args.resume + 1
            /\ params' = disk[args.resume].state_dict.params
            /\ queue' = disk[args.resume].state_dict.queue
            /\ queue_ptr' = disk[args.resume].state_dict.queue_ptr
            /\ optimizer'.lr = disk[args.resume].optimizer.lr
            /\ optimizer'.buf = disk[args.resume].optimizer.buf
       /\ (InLoop /\ pc # "save") => epoch' = epoch
       /\ (pc' \in {"fetch", "encode_query"}) =>
            adjusted' = epoch' /\ epoch' <= args.epochs
       /\ pc' = "done" => epoch' > args.epochs]_vars

\* C9 witness: a run resumed from a checkpoint has trained, saved a later
\* checkpoint and finished
C9_Witness ==
    /\ pc = "done"
    /\ args.resume # 0
    /\ step_no > 0
    /\ \E e \in (args.resume + 1)..Epochs :
          disk[e] # NoCkpt /\ disk[e].opt = args

\* C10: in a run whose batch size divides K, fresh or resumed from a
\* checkpoint, the pointer is in [0, K) while the run is alive, and at every
\* enqueue ptr + batch_size <= K.
C10_SliceInside ==
    args.queue_size % args.batch_size = 0 =>
        /\ Running => (0 <= queue_ptr /\ queue_ptr < args.queue_size)
        /\ pc = "enqueue" => queue_ptr + args.batch_size <= args.queue_size

====
